---- MODULE Spec2Model ----
(***************************************************************************)
(* Santorini rules engine (src/main.py): Tile, Worker, Board, Move, Build, *)
(* the god cards, Timer with its polling thread, Hint and Game, driven by  *)
(* the handlers SantoriniGUI (src/gui.py) binds to the widgets.            *)
(*                                                                         *)
(* Python lists of positions are built by row-major scans and only ever    *)
(* filtered, so a list is modelled by the set of its elements and "first   *)
(* in the list" by the row-major minimum (FirstInScan).                    *)
(*                                                                         *)
(* Engine handlers run on the Tk main loop, one at a time; each is one     *)
(* action.  A timer thread is a separate process whose loop is cut at its  *)
(* sleep: one step runs from the end of a sleep through the test of        *)
(* `running` into the next sleep, or to the end of the thread.  Callbacks  *)
(* the thread posts with root.after(0, ...) wait in `pending` until the    *)
(* main loop runs them.                                                    *)
(***************************************************************************)
EXTENDS Integers, FiniteSets, Sequences, TLC

VARIABLES
  level,                \* Tile.level.value of every tile (4 = DOME)
  occ,                  \* Tile.worker of every tile (NoWorker = None)
  position,             \* Worker.position
  prev_position,        \* Worker.prev_position
  god_card,             \* Player.god_card.name of each player
  current_player_index, \* Game.current_player_index
  phase,                \* Game.phase
  selected_worker,      \* Game.selected_worker
  second_action,        \* Game.second_action
  god_power_active,     \* Game.god_power_active
  winner,               \* Game.winner (index of the player, NoPlayer = None)
  turn_count,           \* Game.turn_count
  hint_counts,          \* Game.hint_counts
  running,              \* Timer.running
  current_timer_start,  \* Timer.current_timer_start is not None
  player_timers,        \* Timer.player_timers
  thread,               \* Timer.thread, the newest timer thread: "sleep" or "done"
  stale,                \* number of older timer threads still alive
  pending,              \* handle_timeout callbacks posted and not yet run, oldest
                        \* first, each tagged with the player whose clock expired
  turn0,                \* turn_count of the first state (anchors the turn bound)
  last                  \* the last handler or thread step: its name, the position
                        \* it was given, its result (and the source position of
                        \* a Move or Build executed directly)

vars == <<level, occ, position, prev_position, god_card, current_player_index,
          phase, selected_worker, second_action, god_power_active, winner,
          turn_count, hint_counts, running, current_timer_start, player_timers,
          thread, stale, pending, turn0, last>>

boardVars == <<level, occ, position, prev_position>>
gameVars == <<current_player_index, phase, selected_worker, second_action,
              god_power_active, winner, turn_count>>
timerVars == <<running, current_timer_start, player_timers, thread, stale>>

----------------------------------------------------------------------------
\* Program constants

Size == 5                      \* Board.__init__ size
DOME == 4                      \* Level.DOME
LEVEL3 == 3                    \* Level.LEVEL3
InitialHints == 3              \* Game.hint_counts
athena_activated == FALSE      \* Game.athena_activated, never assigned again

\* Bounds of the model

ClickMax == 2                  \* clicks fall in rows and columns 0..ClickMax
MaxTurns == 1                  \* next_turn runs at most MaxTurns times
MaxElapsed == 2                \* a reading of the wall clock advances by 0..MaxElapsed
StartTime == 1                 \* remaining time of each player in the first state
StartSide == 2                 \* start_game places the workers in a corner of this side

----------------------------------------------------------------------------
\* Values

NoWorker == 0
NoPlayer == -1
NoPos == <<>>
Workers == 1..4
Players == 0..1
Pos == (0..(Size - 1)) \X (0..(Size - 1))
Clicks == (0..ClickMax) \X (0..ClickMax)
Elapsed == 0..MaxElapsed
NoAction == [type |-> "none", first_pos |-> NoPos]

\* Worker.player: Player.__init__ creates the two workers of each player
Owner(w) == IF w <= 2 THEN 0 ELSE 1
WorkersOf(p) == {w \in Workers : Owner(w) = p}
Other(p) == (p + 1) % 2

\* Row-major order of the scans that build every position list
ScanBefore(p, q) == p[1] < q[1] \/ (p[1] = q[1] /\ p[2] < q[2])
FirstInScan(S) == CHOOSE p \in S : \A q \in S : q = p \/ ScanBefore(p, q)

----------------------------------------------------------------------------
\* Board

IsValidPosition(p) ==
  /\ 0 <= p[1] /\ p[1] < Size
  /\ 0 <= p[2] /\ p[2] < Size

GetAdjacentPositions(p) ==
  {q \in ((p[1] - 1)..(p[1] + 1)) \X ((p[2] - 1)..(p[2] + 1)) :
     q # p /\ IsValidPosition(q)}

\* get_valid_moves without the test of the height difference
GetValidMovesAnyHeight(lv, oc, p, athena_active) ==
  IF ~IsValidPosition(p) THEN {}
  ELSE {q \in GetAdjacentPositions(p) : oc[q] = NoWorker /\ lv[q] # DOME}

\* Board.get_valid_moves on the board (lv, oc)
GetValidMoves(lv, oc, p, athena_active) ==
  IF ~IsValidPosition(p) THEN {}
  ELSE {q \in GetAdjacentPositions(p) :
          /\ oc[q] = NoWorker /\ lv[q] # DOME
          /\ lv[q] - lv[p] <= 1
          /\ ~(lv[q] - lv[p] = 1 /\ athena_active)}

\* Board.get_valid_builds
GetValidBuilds(lv, oc, p) ==
  IF ~IsValidPosition(p) THEN {}
  ELSE {q \in GetAdjacentPositions(p) : oc[q] = NoWorker /\ lv[q] # DOME}

\* get_valid_builds_with_zeus that offers the worker's tile at any height
GetValidBuildsWithZeusAnyHeight(lv, oc, p) ==
  GetValidBuilds(lv, oc, p) \cup
    (IF IsValidPosition(p) /\ oc[p] # NoWorker THEN {p} ELSE {})

\* Board.get_valid_builds_with_zeus
GetValidBuildsWithZeus(lv, oc, p) ==
  GetValidBuilds(lv, oc, p) \cup
    (IF IsValidPosition(p) /\ oc[p] # NoWorker /\ lv[p] # DOME /\ lv[p] < 3
     THEN {p} ELSE {})

\* Tile.build: the result, and the level it leaves on tile p.  `w` is the
\* tile's occupant at the time of the call.
TileBuildOk(lv, w, p) == w = NoWorker /\ lv[p] # DOME

\* Tile.build that reports success on LEVEL3 without raising the dome
TileBuildStuckAtThree(lv, w, p) ==
  IF ~TileBuildOk(lv, w, p) THEN lv
  ELSE [lv EXCEPT ![p] = IF @ = LEVEL3 THEN LEVEL3 ELSE @ + 1]

\* Tile.build that tests for LEVEL2 where it should test for LEVEL3
TileBuildDomeOnTwo(lv, w, p) ==
  IF ~TileBuildOk(lv, w, p) THEN lv
  ELSE [lv EXCEPT ![p] = IF @ >= LEVEL3 - 1 THEN DOME ELSE @ + 1]

TileBuild(lv, w, p) ==
  IF ~TileBuildOk(lv, w, p) THEN lv
  ELSE [lv EXCEPT ![p] = IF @ = LEVEL3 THEN DOME ELSE @ + 1]

\* Worker.move_to without the test for a dome
MoveToOkOntoDome(lv, oc, new) == IsValidPosition(new) /\ oc[new] = NoWorker


\* Worker.move_to (Board.place_worker): the result, and the occupancy and
\* worker records it leaves
MoveToOk(lv, oc, new) ==
  IsValidPosition(new) /\ oc[new] = NoWorker /\ lv[new] # DOME

\* Worker.move_to that forgets to clear the tile the worker leaves
MoveToOccKeepsOld(oc, pos, w, new) == [oc EXCEPT ![new] = w]

MoveToOcc(oc, pos, w, new) ==
  [q \in Pos |-> IF q = new THEN w
                 ELSE IF pos[w] # NoPos /\ q = pos[w] THEN NoWorker
                 ELSE oc[q]]

\* Move.execute that trusts its caller and leaves the test to Worker.move_to
MoveExecuteOkUnchecked(lv, oc, from, to) ==
  IsValidPosition(to) /\ MoveToOk(lv, oc, to)

\* Move.execute for Move(w, from, to)
MoveExecuteOk(lv, oc, from, to) ==
  /\ IsValidPosition(to)
  /\ to \in GetValidMoves(lv, oc, from, FALSE)
  /\ MoveToOk(lv, oc, to)

\* Move.execute that takes LEVEL2 for the winning height as well
MoveIsWinFromTwo(lv, to) == lv[to] >= LEVEL3 - 1

MoveIsWin(lv, to) == lv[to] = LEVEL3

\* Build.execute for Build(p, worker_pos)
BuildExecuteOk(lv, oc, p, worker_pos) ==
  /\ IsValidPosition(p)
  /\ p \in GetValidBuilds(lv, oc, worker_pos)
  /\ TileBuildOk(lv, oc[p], p)

\* Artemis.can_use_power for worker w on the board (lv, oc)
ArtemisCanUsePower(lv, oc, pos, prev, w) ==
  (GetValidMoves(lv, oc, pos[w], FALSE) \ {prev[w]}) # {}

\* Demeter.can_use_power
DemeterCanUsePower(lv, oc, pos, w) ==
  Cardinality(GetValidBuilds(lv, oc, pos[w])) > 1

\* Zeus.can_use_power
ZeusCanUsePower(lv, pos, w) == lv[pos[w]] # DOME /\ lv[pos[w]] < 3

\* can_use_power of the card of w's owner, for w on the current board
\* (GodCard.can_use_power is False)
CanUsePower(w) ==
  CASE god_card[Owner(w)] = "Artemis" ->
         ArtemisCanUsePower(level, occ, position, prev_position, w)
    [] god_card[Owner(w)] = "Demeter" ->
         DemeterCanUsePower(level, occ, position, w)
    [] god_card[Owner(w)] = "Zeus" -> ZeusCanUsePower(level, position, w)
    [] OTHER -> FALSE

----------------------------------------------------------------------------
\* Timer

enabled == TRUE                \* Timer.enabled, never assigned again

\* The wall clock readings a call of stop() can see
StopElapsed == IF running /\ current_timer_start THEN Elapsed ELSE {0}

\* Timer.stop() called with `el` elapsed since current_timer_start
StopTimers(run, start, tm, cpi, el) ==
  IF run /\ start THEN [tm EXCEPT ![cpi] = @ - el] ELSE tm

StopStart(run, start) == IF run /\ start THEN FALSE ELSE start

\* Game.stop_timer() and nothing else of the clock: running is cleared, the
\* threads are left to notice it
StopTimer(el) ==
  /\ player_timers' = StopTimers(running, current_timer_start, player_timers,
                                 current_player_index, el)
  /\ current_timer_start' = StopStart(running, current_timer_start)
  /\ running' = FALSE
  /\ UNCHANGED <<thread, stale>>

\* Timer.start() right after stop(): a new thread becomes Timer.thread and
\* passes its first test of `running`; the one it replaces, when still
\* alive, lives on unreferenced
Retire(th, st) == IF th = "sleep" THEN st + 1 ELSE st

StartAfterStop ==
  IF ~enabled
  THEN /\ running' = FALSE
       /\ UNCHANGED <<thread, stale>>
  ELSE /\ running' = TRUE
       /\ thread' = "sleep"
       /\ stale' = Retire(thread, stale)

\* Timer.start that returns early only when the clock is disabled
StartRefusedWhenDisabled == ~enabled

\* Timer.start: `if not self.enabled or self.running: return`
StartRefused == ~enabled \/ running

\* One timer thread: Timer.thread (s = "thread") or one of the older ones
ThreadIds == {"thread", "stale"}

Asleep(s) == IF s = "thread" THEN thread = "sleep" ELSE stale > 0

\* The thread sleeps again, or ends
Resume(s, again) ==
  IF s = "thread"
  THEN thread' = (IF again THEN "sleep" ELSE "done") /\ stale' = stale
  ELSE thread' = thread /\ stale' = (IF again THEN stale ELSE stale - 1)

Tick == [op |-> "tick", pos |-> NoPos, ok |-> TRUE, from |-> NoPos]

\* The same round run by a thread that Timer.thread no longer names
StaleTick == [op |-> "stale_tick", pos |-> NoPos, ok |-> TRUE, from |-> NoPos]

\* timer_tick: `if self.player_timers[...] <= 0:`
Expired(tm, cpi) == tm[cpi] <= 0

\* timer_tick, one round of the loop from the end of the sleep to the next
\* test of `running`.  With current_timer_start set, the elapsed time is
\* deducted from the current player's remaining time and the start is
\* reset; a remaining time of zero or less is clamped, halts the clock and
\* posts handle_timeout.
TimerTick(s) ==
  /\ Asleep(s)
  /\ IF current_timer_start
     THEN \E el \in Elapsed :
            LET tm == [player_timers EXCEPT ![current_player_index] = @ - el]
            IN IF Expired(tm, current_player_index)
               THEN /\ player_timers' =
                         [tm EXCEPT ![current_player_index] = 0]
                    /\ running' = FALSE
                    /\ pending' = Append(pending, current_player_index)
                    /\ Resume(s, FALSE)
               ELSE /\ player_timers' = tm
                    /\ UNCHANGED <<running, pending>>
                    /\ Resume(s, running)
     ELSE /\ UNCHANGED <<player_timers, running, pending>>
          /\ Resume(s, running)
  /\ last' = IF s = "thread" THEN Tick ELSE StaleTick
  /\ UNCHANGED <<boardVars, gameVars, god_card, hint_counts,
                 current_timer_start, turn0>>

----------------------------------------------------------------------------
\* Game

Did(op, p, ok) == [op |-> op, pos |-> p, ok |-> ok, from |-> NoPos]

\* The loop of Game.check_game_over for player cpi on heights lv
CanMove(lv, oc, pos, cpi) ==
  \E w \in WorkersOf(cpi) :
     pos[w] # NoPos /\ GetValidMoves(lv, oc, pos[w], athena_activated) # {}

\* The player Game.check_game_over and Timer.handle_timeout declare winner
\* when cpi is the current player
OpponentOf(cpi) == (cpi + 1) % 2

\* next_turn without check_game_over
NextTurnNoCheck(lv, el) ==
  /\ turn_count < turn0 + MaxTurns
  /\ player_timers' = StopTimers(running, current_timer_start,
                                 player_timers, current_player_index, el)
  /\ current_timer_start' =
       IF ~enabled THEN StopStart(running, current_timer_start) ELSE TRUE
  /\ current_player_index' = (current_player_index + 1) % 2
  /\ turn_count' = turn_count + 1
  /\ selected_worker' = NoWorker
  /\ phase' = "select"
  /\ second_action' = NoAction
  /\ god_power_active' = FALSE
  /\ winner' = winner
  /\ StartAfterStop

\* next_turn without the reset of god_power_active
NextTurnKeepsPower(lv, el) ==
  LET cpi == (current_player_index + 1) % 2
      over == winner = NoPlayer /\ ~CanMove(lv, occ, position, cpi)
  IN /\ turn_count < turn0 + MaxTurns
     /\ player_timers' = StopTimers(running, current_timer_start,
                                    player_timers, current_player_index, el)
     /\ current_timer_start' =
          IF over \/ ~enabled THEN StopStart(running, current_timer_start)
          ELSE TRUE
     /\ current_player_index' = cpi
     /\ turn_count' = turn_count + 1
     /\ selected_worker' = NoWorker
     /\ phase' = "select"
     /\ second_action' = NoAction
     /\ god_power_active' = god_power_active
     /\ IF over
        THEN /\ winner' = OpponentOf(cpi)
             /\ running' = FALSE
             /\ UNCHANGED <<thread, stale>>
        ELSE /\ winner' = winner
             /\ StartAfterStop

\* Game.next_turn() on heights lv (the board the turn's build left), with
\* `el` the time stop() sees elapsed.  check_game_over runs with phase
\* "select"; SantoriniGUI.show_game_over stops the (already stopped) clock.
NextTurn(lv, el) ==
  LET cpi == (current_player_index + 1) % 2
      over == winner = NoPlayer /\ ~CanMove(lv, occ, position, cpi)
  IN /\ turn_count < turn0 + MaxTurns
     /\ player_timers' = StopTimers(running, current_timer_start,
                                    player_timers, current_player_index, el)
     /\ current_timer_start' =
          IF over \/ ~enabled THEN StopStart(running, current_timer_start)
          ELSE TRUE
     /\ current_player_index' = cpi
     /\ turn_count' = turn_count + 1
     /\ selected_worker' = NoWorker
     /\ phase' = "select"
     /\ second_action' = NoAction
     /\ god_power_active' = FALSE
     /\ IF over
        THEN /\ winner' = OpponentOf(cpi)
             /\ running' = FALSE
             /\ UNCHANGED <<thread, stale>>
        ELSE /\ winner' = winner
             /\ StartAfterStop

\* A selection that takes a worker of either player
CanSelectAnyOwner(p) ==
  /\ occ[p] # NoWorker
  /\ GetValidMoves(level, occ, p, athena_activated) # {}

\* A selection that takes a worker of the current player that cannot move
CanSelectStuck(p) ==
  /\ occ[p] # NoWorker
  /\ Owner(occ[p]) = current_player_index

\* _handle_select_phase: the tile holds a worker of the current player that
\* has a valid move
CanSelect(p) ==
  /\ occ[p] # NoWorker
  /\ Owner(occ[p]) = current_player_index
  /\ GetValidMoves(level, occ, p, athena_activated) # {}


\* Game._handle_select_phase
HandleSelectPhase(p) ==
  LET w == occ[p]
      accepted == CanSelect(p)
  IN /\ IF accepted
        THEN selected_worker' = w /\ phase' = "move"
        ELSE UNCHANGED <<selected_worker, phase>>
     /\ last' = Did("click", p, accepted)
     /\ UNCHANGED <<boardVars, current_player_index, second_action,
                    god_power_active, winner, turn_count, timerVars>>

\* The successful Move.execute of the move phases: worker w goes to p
DoMove(w, p) ==
  /\ occ' = MoveToOcc(occ, position, w, p)
  /\ prev_position' = [prev_position EXCEPT ![w] = position[w]]
  /\ position' = [position EXCEPT ![w] = p]
  /\ level' = level

\* A winning move that also moves phase to a terminal value
WinByMoveGameOver(w) ==
  /\ winner' = Owner(w)
  /\ \E el \in StopElapsed : StopTimer(el)
  /\ phase' = "gameOver"
  /\ UNCHANGED <<current_player_index, selected_worker, second_action,
                 god_power_active, turn_count>>

\* A winning move: winner is set and show_game_over stops the clock
WinByMove(w) ==
  /\ winner' = Owner(w)
  /\ \E el \in StopElapsed : StopTimer(el)
  /\ UNCHANGED <<current_player_index, phase, selected_worker, second_action,
                 god_power_active, turn_count>>

\* The Artemis test without god_power_active
IsArtemisNotActivated(w) == god_card[Owner(w)] = "Artemis"

\* _handle_move_phase: the mover's card is Artemis and the power is active
IsArtemis(w) == god_card[Owner(w)] = "Artemis" /\ god_power_active

\* An invalid click of the move phase that drops the selection
InvalidMoveDeselects ==
  /\ selected_worker' = NoWorker
  /\ phase' = "select"
  /\ UNCHANGED <<boardVars, current_player_index, second_action,
                 god_power_active, winner, turn_count, timerVars>>

\* _handle_move_phase for a position not in valid_moves: a status text only
InvalidMove == UNCHANGED <<boardVars, gameVars, timerVars>>


\* Game._handle_move_phase with a worker selected
HandleMovePhase(p) ==
  LET w == selected_worker
      from == position[w]
      valid_moves == GetValidMoves(level, occ, from, athena_activated)
      moved == p \in valid_moves /\ MoveExecuteOk(level, occ, from, p)
      occ2 == MoveToOcc(occ, position, w, p)
      pos2 == [position EXCEPT ![w] = p]
      prev2 == [prev_position EXCEPT ![w] = from]
      artemis == /\ IsArtemis(w)
                 /\ ArtemisCanUsePower(level, occ2, pos2, prev2, w)
                 /\ (GetValidMoves(level, occ2, p, athena_activated)
                       \ {from}) # {}
  IN /\ IF ~moved
        THEN InvalidMove
        ELSE /\ DoMove(w, p)
             /\ IF MoveIsWin(level, p)
                THEN WinByMove(w)
                ELSE /\ phase' = IF artemis THEN "second_move" ELSE "build"
                     /\ second_action' =
                          IF artemis THEN [type |-> "move", first_pos |-> p]
                          ELSE second_action
                     /\ UNCHANGED <<current_player_index, selected_worker,
                                    god_power_active, winner, turn_count,
                                    timerVars>>
     /\ last' = Did("click", p, moved)

\* The moves of the second move with the way back left in
SecondMovesWithBack(lv, oc, from, prev) ==
  GetValidMoves(lv, oc, from, athena_activated)

\* valid_moves of _handle_second_move_phase: the worker's moves without the
\* tile it came from
SecondMoves(lv, oc, from, prev) ==
  GetValidMoves(lv, oc, from, athena_activated) \ {prev}

\* A second move that goes on to build without looking for a win
HandleSecondMovePhaseNoWin(p) ==
  LET w == selected_worker
      from == position[w]
      valid_moves == SecondMoves(level, occ, from, prev_position[w])
      moved == p \in valid_moves /\ MoveExecuteOk(level, occ, from, p)
  IN /\ IF ~moved
        THEN UNCHANGED <<boardVars, gameVars, timerVars>>
        ELSE /\ DoMove(w, p)
             /\ phase' = "build"
             /\ UNCHANGED <<current_player_index, selected_worker,
                            second_action, god_power_active, winner,
                            turn_count, timerVars>>
     /\ last' = Did("click", p, moved)

\* Game._handle_second_move_phase with a worker selected and a second move
\* on offer
HandleSecondMovePhase(p) ==
  LET w == selected_worker
      from == position[w]
      valid_moves == SecondMoves(level, occ, from, prev_position[w])
      moved == p \in valid_moves /\ MoveExecuteOk(level, occ, from, p)
  IN /\ IF ~moved
        THEN UNCHANGED <<boardVars, gameVars, timerVars>>
        ELSE /\ DoMove(w, p)
             /\ IF MoveIsWin(level, p)
                THEN WinByMove(w)
                ELSE /\ phase' = "build"
                     /\ UNCHANGED <<current_player_index, selected_worker,
                                    second_action, god_power_active, winner,
                                    turn_count, timerVars>>
     /\ last' = Did("click", p, moved)

\* The Demeter test without the search for another target
DemeterBuildsAgainAlways(w, p, valid_builds) ==
  /\ god_card[Owner(w)] = "Demeter"
  /\ god_power_active

\* The Demeter test without god_power_active
DemeterBuildsAgainNotActivated(w, p, valid_builds) ==
  /\ god_card[Owner(w)] = "Demeter"
  /\ (valid_builds \ {p}) # {}

\* _handle_build_phase after a build on p: the builder's card is Demeter, the
\* power is active and valid_builds holds another position
DemeterBuildsAgain(w, p, valid_builds) ==
  /\ god_card[Owner(w)] = "Demeter"
  /\ god_power_active
  /\ (valid_builds \ {p}) # {}

\* is_zeus without the test of god_power_active
IsZeusNotActivated == god_card[current_player_index] = "Zeus"

\* The Zeus test without the card
IsZeusAnyCard == god_power_active

\* is_zeus of _handle_build_phase
IsZeus == god_power_active /\ god_card[current_player_index] = "Zeus"


\* Game._handle_build_phase with a worker selected.  A build under the
\* worker (Zeus) lifts the worker off the tile for the call of Tile.build.
HandleBuildPhase(p) ==
  LET w == selected_worker
      at == position[w]
      is_zeus == IsZeus
      valid_builds == IF is_zeus THEN GetValidBuildsWithZeus(level, occ, at)
                      ELSE GetValidBuilds(level, occ, at)
      under == p = at /\ level[p] # DOME /\ level[p] < 3
      built == /\ p \in valid_builds
               /\ IF p = at THEN under
                  ELSE BuildExecuteOk(level, occ, p, at)
      lv2 == TileBuild(level, IF p = at THEN NoWorker ELSE occ[p], p)
      demeter == p # at /\ DemeterBuildsAgain(w, p, valid_builds)
  IN /\ IF ~built
        THEN UNCHANGED <<level, gameVars, timerVars>>
        ELSE /\ level' = lv2
             /\ IF demeter
                THEN /\ phase' = "second_build"
                     /\ second_action' = [type |-> "build", first_pos |-> p]
                     /\ UNCHANGED <<current_player_index, selected_worker,
                                    god_power_active, winner, turn_count,
                                    timerVars>>
                ELSE \E el \in StopElapsed : NextTurn(lv2, el)
     /\ last' = Did("click", p, built)
     /\ UNCHANGED <<occ, position, prev_position>>

\* The builds of the second build with the first target left in
SecondBuildsWithFirst(lv, oc, at, first) == GetValidBuilds(lv, oc, at)

\* valid_builds of _handle_second_build_phase: the worker's builds without
\* the target of the first build
SecondBuilds(lv, oc, at, first) == GetValidBuilds(lv, oc, at) \ {first}


\* Game._handle_second_build_phase with a worker selected and a second
\* build on offer
HandleSecondBuildPhase(p) ==
  LET w == selected_worker
      at == position[w]
      valid_builds == SecondBuilds(level, occ, at, second_action.first_pos)
      built == p \in valid_builds /\ BuildExecuteOk(level, occ, p, at)
      lv2 == TileBuild(level, occ[p], p)
  IN /\ IF ~built
        THEN UNCHANGED <<level, gameVars, timerVars>>
        ELSE /\ level' = lv2
             /\ \E el \in StopElapsed : NextTurn(lv2, el)
     /\ last' = Did("click", p, built)
     /\ UNCHANGED <<occ, position, prev_position>>

\* A handler that returns without touching anything
Refused(op, p) ==
  /\ last' = Did(op, p, FALSE)
  /\ UNCHANGED <<boardVars, gameVars, timerVars>>

\* Game.handle_tile_click.  start_game leaves phase "select", so the
\* "place" branch is never taken.
HandleTileClick(p) ==
  /\ IF winner # NoPlayer THEN Refused("click", p)
     ELSE CASE phase = "select" -> HandleSelectPhase(p)
            [] phase = "move" ->
                 IF selected_worker = NoWorker THEN Refused("click", p)
                 ELSE HandleMovePhase(p)
            [] phase = "build" ->
                 IF selected_worker = NoWorker THEN Refused("click", p)
                 ELSE HandleBuildPhase(p)
            [] phase = "second_move" ->
                 IF selected_worker = NoWorker \/ second_action.type # "move"
                 THEN Refused("click", p)
                 ELSE HandleSecondMovePhase(p)
            [] phase = "second_build" ->
                 IF selected_worker = NoWorker \/ second_action.type # "build"
                 THEN Refused("click", p)
                 ELSE HandleSecondBuildPhase(p)
            [] OTHER -> Refused("click", p)
  /\ UNCHANGED <<god_card, hint_counts, pending, turn0>>

\* skip_second_action that ends the turn from second_move as well
SkipSecondActionEndsTurn ==
  /\ IF phase \in {"second_move", "second_build"}
     THEN /\ level' = level
          /\ \E el \in StopElapsed : NextTurn(level, el)
     ELSE UNCHANGED <<level, gameVars, timerVars>>
  /\ last' = Did("skip", NoPos, phase \in {"second_move", "second_build"})
  /\ UNCHANGED <<occ, position, prev_position, god_card, hint_counts,
                 pending, turn0>>

\* skip_second_action that drops the selection when it leaves second_move
SkipSecondActionDeselects ==
  /\ IF phase = "second_move"
     THEN /\ phase' = "build"
          /\ selected_worker' = NoWorker
          /\ UNCHANGED <<level, current_player_index, second_action,
                         god_power_active, winner, turn_count, timerVars>>
     ELSE IF phase = "second_build"
     THEN /\ level' = level
          /\ \E el \in StopElapsed : NextTurn(level, el)
     ELSE UNCHANGED <<level, gameVars, timerVars>>
  /\ last' = Did("skip", NoPos, phase \in {"second_move", "second_build"})
  /\ UNCHANGED <<occ, position, prev_position, god_card, hint_counts,
                 pending, turn0>>

\* Game.skip_second_action
SkipSecondAction ==
  /\ IF phase = "second_move"
     THEN /\ phase' = "build"
          /\ UNCHANGED <<level, current_player_index, selected_worker,
                         second_action, god_power_active, winner, turn_count,
                         timerVars>>
     ELSE IF phase = "second_build"
     THEN /\ level' = level
          /\ \E el \in StopElapsed : NextTurn(level, el)
     ELSE UNCHANGED <<level, gameVars, timerVars>>
  /\ last' = Did("skip", NoPos, phase \in {"second_move", "second_build"})
  /\ UNCHANGED <<occ, position, prev_position, god_card, hint_counts,
                 pending, turn0>>

\* activate_god_power without its test of god_power_active
ActivateOkAgain ==
  /\ god_card[current_player_index] # "None"
  /\ phase \in {"select", "move", "build"}

\* Game.activate_god_power: its result
ActivateOk ==
  /\ god_card[current_player_index] # "None"
  /\ phase \in {"select", "move", "build"}
  /\ ~god_power_active

ActivateGodPower ==
  /\ god_power_active' = (god_power_active \/ ActivateOk)
  /\ last' = Did("activate", NoPos, ActivateOk)
  /\ UNCHANGED <<boardVars, current_player_index, phase, selected_worker,
                 second_action, winner, turn_count, timerVars, god_card,
                 hint_counts, pending, turn0>>

\* handle_timeout without the test `if self.game.winner is None`
HandleTimeoutAlways ==
  /\ pending # <<>>
  /\ pending' = Tail(pending)
  /\ winner' = OpponentOf(current_player_index)
  /\ \E el \in StopElapsed : StopTimer(el)
  /\ last' = Did("timeout", NoPos, TRUE)
  /\ UNCHANGED <<boardVars, current_player_index, phase, selected_worker,
                 second_action, god_power_active, turn_count, god_card,
                 hint_counts, turn0>>

\* Timer.handle_timeout, run by the main loop for a posted callback;
\* show_game_over stops the clock
HandleTimeout ==
  /\ pending # <<>>
  /\ pending' = Tail(pending)
  /\ IF winner = NoPlayer
     THEN /\ winner' = OpponentOf(current_player_index)
          /\ \E el \in StopElapsed : StopTimer(el)
     ELSE UNCHANGED <<winner, timerVars>>
  /\ last' = Did("timeout", NoPos, winner = NoPlayer)
  /\ UNCHANGED <<boardVars, current_player_index, phase, selected_worker,
                 second_action, god_power_active, turn_count, god_card,
                 hint_counts, turn0>>

----------------------------------------------------------------------------
\* Hint

\* A list of positions in scan order
RECURSIVE ScanList(_)
ScanList(S) ==
  IF S = {} THEN <<>>
  ELSE LET p == FirstInScan(S) IN <<p>> \o ScanList(S \ {p})

\* The loops of Hint.find_best_move: candidates cand[i..] with scores
\* score[cand[i]], keeping a candidate only when it beats best_score
RECURSIVE BestFrom(_, _, _, _, _)
BestFrom(cand, score, i, best_score, best) ==
  IF i > Len(cand) THEN best
  ELSE IF score[cand[i]] > best_score
       THEN BestFrom(cand, score, i + 1, score[cand[i]], cand[i])
       ELSE BestFrom(cand, score, i + 1, best_score, best)

\* The move score without the points for climbing
MoveScoreNoClimb(lv, from, to) == IF lv[to] = 3 THEN 100 ELSE 0

\* The score find_best_move gives a move from from to to
MoveScore(lv, from, to) ==
  (IF lv[to] > lv[from] THEN 5 * (lv[to] - lv[from]) ELSE 0)
    + (IF lv[to] = 3 THEN 100 ELSE 0)

BuildScore(lv, to) == 3 - lv[to]

\* find_best_move that takes the candidates of a move from get_valid_builds
FindBestMoveAnyHeight ==
  LET cp == current_player_index
      w == selected_worker
  IN IF phase = "select"
     THEN LET ws == <<2 * cp + 1, 2 * cp + 2>>
              n == [v \in {ws[1], ws[2]} |->
                      IF position[v] = NoPos THEN 0
                      ELSE Cardinality(GetValidMoves(level, occ, position[v],
                                                     athena_activated))]
              \* a worker without moves is skipped: it scores below -1
              sc == [v \in {ws[1], ws[2]} |-> IF n[v] = 0 THEN -2 ELSE n[v]]
              bw == BestFrom(ws, sc, 1, -1, NoWorker)
          IN IF bw = NoWorker THEN NoPos ELSE position[bw]
     ELSE IF phase = "move" /\ w # NoWorker
     THEN LET vm == GetValidBuilds(level, occ, position[w])
              sc == [q \in vm |-> MoveScore(level, position[w], q)]
          IN BestFrom(ScanList(vm), sc, 1, -1, NoPos)
     ELSE IF phase = "build" /\ w # NoWorker
     THEN LET vb == GetValidBuilds(level, occ, position[w])
              sc == [q \in vb |-> BuildScore(level, q)]
          IN BestFrom(ScanList(vb), sc, 1, -1, NoPos)
     ELSE NoPos

\* Hint.find_best_move: the proposed position, NoPos for no proposal
FindBestMove ==
  LET cp == current_player_index
      w == selected_worker
  IN IF phase = "select"
     THEN LET ws == <<2 * cp + 1, 2 * cp + 2>>
              n == [v \in {ws[1], ws[2]} |->
                      IF position[v] = NoPos THEN 0
                      ELSE Cardinality(GetValidMoves(level, occ, position[v],
                                                     athena_activated))]
              \* a worker without moves is skipped: it scores below -1
              sc == [v \in {ws[1], ws[2]} |-> IF n[v] = 0 THEN -2 ELSE n[v]]
              bw == BestFrom(ws, sc, 1, -1, NoWorker)
          IN IF bw = NoWorker THEN NoPos ELSE position[bw]
     ELSE IF phase = "move" /\ w # NoWorker
     THEN LET vm == GetValidMoves(level, occ, position[w], athena_activated)
              sc == [q \in vm |-> MoveScore(level, position[w], q)]
          IN BestFrom(ScanList(vm), sc, 1, -1, NoPos)
     ELSE IF phase = "build" /\ w # NoWorker
     THEN LET vb == GetValidBuilds(level, occ, position[w])
              sc == [q \in vb |-> BuildScore(level, q)]
          IN BestFrom(ScanList(vb), sc, 1, -1, NoPos)
     ELSE NoPos

\* provide_hint that keeps the count it took when there is nothing to propose
HintCountsAfterNoRefund(given) ==
  IF winner = NoPlayer /\ hint_counts[current_player_index] > 0
  THEN [hint_counts EXCEPT ![current_player_index] = @ - 1]
  ELSE hint_counts

\* hint_counts when provide_hint returns: one taken from the current player
\* if a hint was given (taken before the search, put back if it found none)
HintCountsAfter(given) ==
  IF given THEN [hint_counts EXCEPT ![current_player_index] = @ - 1]
  ELSE hint_counts


\* Game.provide_hint: the count is taken before the search and given back
\* when the search finds nothing
ProvideHint ==
  LET cp == current_player_index
      hint == FindBestMove
      given == winner = NoPlayer /\ hint_counts[cp] > 0 /\ hint # NoPos
  IN /\ hint_counts' = HintCountsAfter(given)
     /\ last' = Did("hint", IF given THEN hint ELSE NoPos, given)
     /\ UNCHANGED <<boardVars, gameVars, timerVars, god_card, pending, turn0>>

----------------------------------------------------------------------------
\* Move.execute and Build.execute as operations of their own: one call with
\* a target of the caller's choice, in or off the board, from the tile of any
\* worker, on a board the game has reached

ExecOps == {"move_execute", "build_execute"}
Executed == last.op \in ExecOps
ExecCoords == (-1..ClickMax) \cup {Size}
ExecPos == ExecCoords \X ExecCoords

\* The positions a Board query can be asked about: the board and the ring
\* of positions just off it
QueryPos == (-1..Size) \X (-1..Size)
WorkerTiles == {position[w] : w \in Workers}

\* Move(w, from, to).execute(board)
MoveExecute(w, from, to) ==
  LET success == MoveExecuteOk(level, occ, from, to)
  IN /\ ~Executed
     /\ IF success THEN DoMove(w, to) ELSE UNCHANGED boardVars
     /\ last' = [op |-> "move_execute", pos |-> to, ok |-> success,
                 from |-> from]
     /\ UNCHANGED <<gameVars, timerVars, god_card, hint_counts, pending,
                    turn0>>

\* Build(p, worker_pos).execute(board)
BuildExecute(p, worker_pos) ==
  LET success == BuildExecuteOk(level, occ, p, worker_pos)
  IN /\ ~Executed
     /\ level' = IF success THEN TileBuild(level, occ[p], p) ELSE level
     /\ last' = [op |-> "build_execute", pos |-> p, ok |-> success,
                 from |-> worker_pos]
     /\ UNCHANGED <<occ, position, prev_position, gameVars, timerVars,
                    god_card, hint_counts, pending, turn0>>

\* Timer.start() and Timer.stop() called directly
Called == last.op \in {"start", "stop"}

TimerStart ==
  /\ ~Called
  /\ IF StartRefused
     THEN UNCHANGED timerVars
     ELSE /\ running' = TRUE
          /\ current_timer_start' = TRUE
          /\ thread' = "sleep"
          /\ stale' = Retire(thread, stale)
          /\ UNCHANGED player_timers
  /\ last' = [op |-> "start", pos |-> NoPos, ok |-> ~StartRefused,
              from |-> NoPos]
  /\ UNCHANGED <<boardVars, gameVars, god_card, hint_counts, pending, turn0>>

TimerStop ==
  /\ ~Called
  /\ \E el \in StopElapsed : StopTimer(el)
  /\ last' = [op |-> "stop", pos |-> NoPos, ok |-> running, from |-> NoPos]
  /\ UNCHANGED <<boardVars, gameVars, god_card, hint_counts, pending, turn0>>

\* board.place_worker(w, new), called directly
Placed == last.op = "place_worker"

PlaceWorker(w, new) ==
  LET success == MoveToOk(level, occ, new)
  IN /\ ~Placed
     /\ IF success THEN DoMove(w, new) ELSE UNCHANGED boardVars
     /\ last' = [op |-> "place_worker", pos |-> new, ok |-> success,
                 from |-> position[w]]
     /\ UNCHANGED <<gameVars, timerVars, god_card, hint_counts, pending,
                    turn0>>

----------------------------------------------------------------------------
\* The first state.  A session is SantoriniGUI.new_game: Zeus for one player
\* and Artemis or Demeter for the other, then Game.start_game.  The model
\* starts sixteen turns into such a session, right after the next_turn that
\* ended turn 16 of this play from the placement (1,1) (2,2) (0,0) (0,1),
\* written worker: from > to, build:
\*   1: (1,1)>(2,1) (1,0)    3: (0,0)>(1,0) (1,1)    1: (2,1)>(1,1) (0,2)
\*   3: (1,0)>(0,0) (1,0)    1: (1,1)>(2,1) (1,1)    4: (0,1)>(0,2) (1,2)
\*   1: (2,1)>(1,2) (2,1)    4: (0,2)>(1,1) (0,2)    2: (2,2)>(3,1) (2,2)
\*   4: (1,1)>(1,0) (2,0)    2: (3,1)>(2,1) (2,2)    4: (1,0)>(1,1) (0,2)
\*   2: (2,1)>(2,2) (2,1)    4: (1,1)>(1,0) (2,0)    1: (1,2)>(2,1) (2,0)
\*   4: (1,0)>(0,1) (0,2)
\* in which player 0 asked for two hints and player 1 for three.  The clock
\* runs for player 0 with the thread of this turn in its first sleep; the
\* threads of earlier turns have ended, each having woken between the stop
\* and the start of a next_turn.

InitLevel ==
  [q \in Pos |->
     CASE q = <<0, 2>> -> DOME
       [] q = <<1, 0>> -> 2
       [] q = <<1, 1>> -> 2
       [] q = <<1, 2>> -> 1
       [] q = <<2, 0>> -> 3
       [] q = <<2, 1>> -> 2
       [] q = <<2, 2>> -> 2
       [] OTHER -> 0]

InitPosition == <<(<<2, 1>>), (<<2, 2>>), (<<0, 0>>), (<<0, 1>>)>>
InitPrevPosition == <<(<<1, 2>>), (<<2, 1>>), (<<1, 0>>), (<<1, 0>>)>>
InitTurn == 16
InitHints == <<InitialHints - 2, InitialHints - 3>>

\* A deal that gives one player no card and the other a special card
NewGameCardsOneNone ==
  {<<"None", c>> : c \in {"Artemis", "Demeter", "Zeus"}}
    \cup {<<c, "None">> : c \in {"Artemis", "Demeter", "Zeus"}}


\* SantoriniGUI.new_game: the cards of players 0 and 1
NewGameCards ==
  {<<"Zeus", "Artemis">>, <<"Zeus", "Demeter">>,
   <<"Artemis", "Zeus">>, <<"Demeter", "Zeus">>}

\* The game with the given cards after a play that left heights lv, workers
\* on pos (before that on prev), t turns played and click as the last click
InitScene(cards, lv, pos, prev, t, click) ==
  /\ level = lv
  /\ position = [w \in Workers |-> pos[w]]
  /\ prev_position = [w \in Workers |-> prev[w]]
  /\ occ = [q \in Pos |->
              IF \E w \in Workers : pos[w] = q
              THEN CHOOSE w \in Workers : pos[w] = q
              ELSE NoWorker]
  /\ god_card = [p \in Players |-> cards[p + 1]]
  /\ current_player_index = t % 2
  /\ phase = "select"
  /\ selected_worker = NoWorker
  /\ second_action = NoAction
  /\ god_power_active = FALSE
  /\ winner = NoPlayer
  /\ turn_count = t
  /\ hint_counts = [p \in Players |-> InitHints[p + 1]]
  /\ running = TRUE
  /\ current_timer_start = TRUE
  /\ player_timers = [p \in Players |-> StartTime]
  /\ thread = "sleep"
  /\ stale = 0
  /\ pending = <<>>
  /\ turn0 = t
  /\ last = Did("click", click, TRUE)

InitWith(cards) ==
  InitScene(cards, InitLevel, InitPosition, InitPrevPosition, InitTurn,
            <<0, 2>>)

Init == \E cards \in NewGameCards : InitWith(cards)

\* Game.randomly_place_workers: the shuffled list gives the four workers
\* four different tiles, here tiles of the corner StartSide x StartSide
RandomlyPlaceWorkers ==
  {pos \in [Workers -> (0..(StartSide - 1)) \X (0..(StartSide - 1))] :
     \A v, w \in Workers : v # w => pos[v] # pos[w]}

\* The state Game.start_game leaves: empty board, workers placed, phase
\* select, player 0 to play, clock started
StartGame(cards, pos) ==
  /\ level = [q \in Pos |-> 0]
  /\ position = pos
  /\ prev_position = [w \in Workers |-> NoPos]
  /\ occ = [q \in Pos |->
              IF \E w \in Workers : pos[w] = q
              THEN CHOOSE w \in Workers : pos[w] = q
              ELSE NoWorker]
  /\ god_card = [p \in Players |-> cards[p + 1]]
  /\ current_player_index = 0
  /\ phase = "select"
  /\ selected_worker = NoWorker
  /\ second_action = NoAction
  /\ god_power_active = FALSE
  /\ winner = NoPlayer
  /\ turn_count = 0
  /\ hint_counts = [p \in Players |-> InitialHints]
  /\ running = TRUE
  /\ current_timer_start = TRUE
  /\ player_timers = [p \in Players |-> StartTime]
  /\ thread = "sleep"
  /\ stale = 0
  /\ pending = <<>>
  /\ turn0 = 0
  /\ last = [op |-> "start_game", pos |-> NoPos, ok |-> TRUE, from |-> NoPos]

\* A new game right after start_game, or the game of Init
InitStart ==
  \/ \E cards \in NewGameCards, pos \in RandomlyPlaceWorkers :
        StartGame(cards, pos)
  \/ Init

\* The game played by clicks and buttons, without the clock and the hints
NextStart ==
  \/ \E p \in Clicks : HandleTileClick(p)
  \/ SkipSecondAction
  \/ ActivateGodPower

SpecStart == InitStart /\ [][NextStart]_vars

Next ==
  \/ \E p \in Clicks : HandleTileClick(p)
  \/ SkipSecondAction
  \/ ActivateGodPower
  \/ ProvideHint
  \/ HandleTimeout
  \/ \E s \in ThreadIds : TimerTick(s)

Spec == Init /\ [][Next]_vars

\* The game played by clicks and buttons alone, up to one direct call of
\* Move.execute or Build.execute
NextExec ==
  \/ \E p \in Clicks : ~Executed /\ HandleTileClick(p)
  \/ ~Executed /\ SkipSecondAction
  \/ ~Executed /\ ActivateGodPower
  \/ \E w \in Workers, from \in WorkerTiles, to \in ExecPos :
       MoveExecute(w, from, to)
  \/ \E p \in ExecPos, worker_pos \in WorkerTiles : BuildExecute(p, worker_pos)

SpecExec == Init /\ [][NextExec]_vars

\* The game played by clicks and buttons while the clock runs, up to one
\* direct call of Timer.start or Timer.stop
NextClock ==
  \/ \E p \in Clicks : ~Called /\ HandleTileClick(p)
  \/ ~Called /\ SkipSecondAction
  \/ ~Called /\ ActivateGodPower
  \/ ~Called /\ HandleTimeout
  \/ \E s \in ThreadIds : ~Called /\ TimerTick(s)
  \/ TimerStart
  \/ TimerStop

SpecClock == Init /\ [][NextClock]_vars

\* The game played by clicks and buttons, without the clock, up to one direct
\* call of Board.place_worker
NextPlace ==
  \/ \E p \in Clicks : ~Placed /\ HandleTileClick(p)
  \/ ~Placed /\ SkipSecondAction
  \/ ~Placed /\ ActivateGodPower
  \/ ~Placed /\ ProvideHint
  \/ \E w \in Workers, new \in ExecPos : PlaceWorker(w, new)

SpecPlace == Init /\ [][NextPlace]_vars

\* The engine driven through Game's own methods by a caller that gave the
\* players any cards, or none (add_player's default), before the same play
Cards == {"None", "Artemis", "Demeter", "Zeus"}

InitCards == \E cards \in Cards \X Cards : InitWith(cards)

NextCards ==
  \/ \E p \in Clicks : HandleTileClick(p)
  \/ SkipSecondAction
  \/ ActivateGodPower
  \/ ProvideHint

SpecCards == InitCards /\ [][NextCards]_vars

\* The same engine two turns later in one continuation of the play: worker 1
\* went to (1,0) and built on (1,1), worker 4 went to (1,2) and built the
\* dome on (1,1)
LateLevel == [InitLevel EXCEPT ![<<1, 1>>] = DOME]
LatePosition == <<(<<1, 0>>), (<<2, 2>>), (<<0, 0>>), (<<1, 2>>)>>
LatePrevPosition == <<(<<2, 1>>), (<<2, 1>>), (<<1, 0>>), (<<0, 1>>)>>
LateTurn == InitTurn + 2

InitLate ==
  \E cards \in Cards \X Cards :
    InitScene(cards, LateLevel, LatePosition, LatePrevPosition, LateTurn,
              <<1, 1>>)

SpecLate == InitLate /\ [][NextCards]_vars

\* A click that the handler of the phase accepts
AcceptedClick == \E p \in Clicks : HandleTileClick(p) /\ last'.ok

\* The game of SpecLate with players who go on giving clicks that are
\* accepted as long as there is one
SpecPlay == InitLate /\ [][NextCards]_vars /\ WF_vars(AcceptedClick)

----------------------------------------------------------------------------
\* Properties

\* C1: the height of every tile stays within GROUND..DOME and never goes
\* down; a step changes heights only by an accepted build click, and an
\* accepted build click raises the clicked tile by exactly one level and
\* no other tile.
C1_HeightStepsByOne ==
  /\ [](\A q \in Pos : level[q] \in 0..DOME)
  /\ [][LET build == /\ phase \in {"build", "second_build"}
                     /\ last'.op = "click" /\ last'.ok
        IN /\ \A q \in Pos : level'[q] = level[q] \/ level'[q] = level[q] + 1
           /\ build => /\ level'[last'.pos] = level[last'.pos] + 1
                       /\ \A q \in Pos \ {last'.pos} : level'[q] = level[q]
           /\ level' # level => build]_vars

\* C1 witness: the build that ended a turn of the model has just put a dome
\* on a tile of height 3.
C1_Witness ==
  /\ turn_count = turn0 + 1 /\ phase = "select"
  /\ last.op = "click" /\ last.ok
  /\ level[last.pos] = DOME

\* C2: no DOME tile holds a worker; a DOME tile stays a DOME, and a click
\* on a DOME tile in a build phase (build, Demeter's second build, Zeus
\* power on or off) is refused and changes no height.
C2_DomeIsFinal ==
  /\ [](\A q \in Pos : level[q] = DOME => occ[q] = NoWorker)
  /\ [][/\ \A q \in Pos : level[q] = DOME => level'[q] = DOME
        /\ (/\ phase \in {"build", "second_build"}
            /\ last'.op = "click"
            /\ level[last'.pos] = DOME)
             => ~last'.ok /\ level' = level]_vars

\* C2 witness: Demeter's second build was tried on a DOME tile next to the
\* builder and refused.
C2_Witness ==
  /\ phase = "second_build" /\ winner = NoPlayer
  /\ last.op = "click" /\ ~last.ok
  /\ level[last.pos] = DOME
  /\ last.pos \in GetAdjacentPositions(position[selected_worker])

\* C3: every worker is the occupant of the tile at its position, every
\* occupant of a tile has that tile as its position, and no two workers
\* have the same position.
C3_OccupancyConsistent ==
  /\ \A w \in Workers :
       position[w] # NoPos => position[w] \in Pos /\ occ[position[w]] = w
  /\ \A q \in Pos : occ[q] # NoWorker => position[occ[q]] = q
  /\ \A v, w \in Workers :
       (v # w /\ position[v] # NoPos) => position[v] # position[w]

\* C3 witness: a turn of the model ended with Zeus building under the
\* builder, who still stands on the raised tile.
C3_Witness ==
  /\ turn_count = turn0 + 1 /\ phase = "select"
  /\ last.op = "click" /\ last.ok
  /\ occ[last.pos] # NoWorker
  /\ Owner(occ[last.pos]) # current_player_index

\* C4: Move.execute succeeds only onto a tile of the board next to the
\* source that holds no worker, is not a DOME and is at most one level above
\* the source; Build.execute succeeds only on a tile of the board next to
\* the worker's position that holds no worker and is not a DOME; a call
\* that does not succeed leaves heights, occupants and worker positions as
\* they were.
C4_ExecuteRevalidates ==
  [][LET to == last'.pos
         from == last'.from
         next_to == /\ from \in Pos /\ to \in Pos /\ to # from
                    /\ to[1] - from[1] \in -1..1
                    /\ to[2] - from[2] \in -1..1
         free == occ[to] = NoWorker /\ level[to] # DOME
     IN /\ last'.op = "move_execute" =>
             /\ last'.ok =>
                  next_to /\ free /\ level[to] <= level[from] + 1
             /\ ~last'.ok => UNCHANGED boardVars
        /\ last'.op = "build_execute" =>
             /\ last'.ok => next_to /\ free
             /\ ~last'.ok => UNCHANGED boardVars]_vars

\* C4 witness: Move.execute refused a free tile next to the source because
\* it stands two or more levels higher.
C4_Witness ==
  /\ last.op = "move_execute" /\ ~last.ok
  /\ last.pos \in GetAdjacentPositions(last.from)
  /\ occ[last.pos] = NoWorker /\ level[last.pos] # DOME
  /\ level[last.pos] > level[last.from] + 1

\* C5: an accepted move click (first move or Artemis' second) onto a tile
\* of height 3 sets winner to the owner of the moving worker, who is the
\* current player, and leaves phase, the turn count and the current player
\* as they were; an accepted move click onto any other height leaves winner
\* unset.
C5_WinOnLevelThree ==
  [][(phase \in {"move", "second_move"} /\ last'.op = "click" /\ last'.ok)
       => IF level[last'.pos] = LEVEL3
          THEN /\ winner' = Owner(selected_worker)
               /\ winner' = current_player_index
               /\ phase' = phase
               /\ turn_count' = turn_count
               /\ current_player_index' = current_player_index
          ELSE winner' = NoPlayer]_vars

\* C5 witness: Artemis' second move has just reached height 3 and won.
C5_Witness ==
  /\ phase = "second_move" /\ winner = current_player_index
  /\ last.op = "click" /\ last.ok
  /\ level[last.pos] = LEVEL3
  /\ position[selected_worker] = last.pos

\* C6: a step that ends a turn leaves, when no worker of the new current
\* player has a legal move, winner set to the other player and the clock
\* not running; otherwise it leaves winner unset, phase select and the
\* clock running.
C6_EndOfTurn ==
  [][turn_count' = turn_count + 1 =>
       LET cp == current_player_index'
           can_move ==
             \E w \in WorkersOf(cp) : \E q \in Pos :
                /\ q # position'[w]
                /\ q[1] - position'[w][1] \in -1..1
                /\ q[2] - position'[w][2] \in -1..1
                /\ occ'[q] = NoWorker /\ level'[q] # DOME
                /\ level'[q] <= level'[position'[w]] + 1
       IN IF ~can_move
          THEN winner' = Other(cp) /\ ~running'
          ELSE winner' = NoPlayer /\ phase' = "select" /\ running']_vars

\* C7: a timeout that is handled while winner is unset makes the opponent
\* of the player whose clock expired the winner; one handled after that
\* leaves winner as it is.
C7_TimeoutWinner ==
  [][(last'.op = "timeout" /\ pending # <<>>)
       => IF winner = NoPlayer
          THEN winner' = Other(Head(pending))
          ELSE winner' = winner]_vars

\* C8: with winner set, a click, skip_second_action, activate_god_power,
\* provide_hint and the handling of a timeout leave phase, the current
\* player, the turn count, the selected worker, the second action, the
\* god power flag, the board, the hint counts and the running flag of the
\* clock unchanged.
C8_TerminalIsNoOp ==
  [][(/\ winner # NoPlayer
      /\ last'.op \in {"click", "skip", "activate", "hint", "timeout"})
       => UNCHANGED <<phase, current_player_index, turn_count,
                      selected_worker, second_action, god_power_active,
                      boardVars, hint_counts, running>>]_vars

\* C9 as stated: whenever winner is set, phase is gameOver.
C9_PhaseIsGameOver == winner # NoPlayer => phase = "gameOver"

\* C9 amended: phase is always one of select, move, build, second_move and
\* second_build, with winner set as well; the step that sets winner leaves
\* phase as it was (win by move, timeout) or at select (end of turn).
C9_PhaseKeptAtWin ==
  /\ [](phase \in {"select", "move", "build", "second_move", "second_build"})
  /\ [][(winner = NoPlayer /\ winner' # NoPlayer)
          => IF turn_count' # turn_count THEN phase' = "select"
             ELSE phase' = phase]_vars

\* C9 witness: the game was won by a move and phase is still move.
C9_Witness ==
  /\ winner # NoPlayer /\ phase = "move"
  /\ last.op = "click" /\ last.ok
  /\ level[last.pos] = LEVEL3

\* C10: with winner set the clock is not running, and a step takes time
\* from no player other than the current one.
C10_OneClockRuns ==
  /\ [](winner # NoPlayer => ~running)
  /\ [][\A p \in Players :
          player_timers'[p] < player_timers[p] => p = current_player_index]_vars

\* C11: a timer thread that next_turn has replaced takes no more time from
\* any player: the next time it wakes it leaves every remaining time as it
\* is and ends.
C11_OldThreadEnds ==
  [][last' = StaleTick =>
       /\ player_timers' = player_timers
       /\ stale' = stale - 1]_vars

\* C12: activate_god_power succeeds exactly when the phase is select, move or
\* build, the power is not yet active and the current player has a card; a
\* refusal leaves god_power_active as it was; the flag is raised by a
\* successful activation only, stays raised while the turn lasts and is down
\* when a turn begins. So it succeeds at most once in a turn.
C12_ActivateOncePerTurn ==
  [][/\ last'.op = "activate" =>
          /\ last'.ok <=> /\ phase \in {"select", "move", "build"}
                          /\ ~god_power_active
                          /\ god_card[current_player_index] # "None"
          /\ last'.ok => god_power_active'
          /\ ~last'.ok => god_power_active' = god_power_active
     /\ (god_power_active' /\ ~god_power_active)
          => last'.op = "activate" /\ last'.ok
     /\ (god_power_active /\ turn_count' = turn_count) => god_power_active'
     /\ turn_count' # turn_count => ~god_power_active']_vars

\* C12 witness: a second activation in the same turn, in a phase that allows
\* activation, was refused.
C12_Witness ==
  /\ last.op = "activate" /\ ~last.ok
  /\ god_power_active
  /\ phase \in {"select", "move", "build"}
  /\ god_card[current_player_index] # "None"

\* C13: an activation made with a worker selected succeeds only if the
\* card's can_use_power holds for that worker on the board as it is; when it
\* does not hold the activation is refused and god_power_active stays false.
C13_ActivationNeedsCanUse ==
  [][(last'.op = "activate" /\ selected_worker # NoWorker
        /\ ~CanUsePower(selected_worker))
       => ~last'.ok /\ ~god_power_active']_vars

\* C14: when a first move opens a second one, the worker's previous position
\* becomes the tile it stood on when the turn began; a click on that tile in
\* phase second_move is refused and leaves the board, the positions and the
\* phase as they are; an accepted click of phase second_move puts the worker
\* on the clicked tile, which is another tile than the one of the start of
\* the turn.
C14_SecondMoveNotBack ==
  [][/\ (phase = "move" /\ phase' = "second_move")
          => /\ prev_position'[selected_worker] = position[selected_worker]
             /\ selected_worker' = selected_worker
     /\ (phase = "second_move" /\ last'.op = "click")
          => /\ last'.pos = prev_position[selected_worker] => ~last'.ok
             /\ last'.ok
                  => /\ position'[selected_worker] = last'.pos
                     /\ last'.pos # prev_position[selected_worker]
     /\ (phase = "second_move" /\ last'.op = "click" /\ ~last'.ok)
          => UNCHANGED <<boardVars, phase, selected_worker>>]_vars

\* C14 witness: in phase second_move of a game not won, a click on the tile
\* of the start of the turn, which the worker could otherwise step back to,
\* was refused.
C14_Witness ==
  /\ phase = "second_move" /\ winner = NoPlayer
  /\ last.op = "click" /\ ~last.ok
  /\ last.pos = prev_position[selected_worker]
  /\ last.pos \in GetValidMoves(level, occ, position[selected_worker],
                                athena_activated)

\* C15: a first build that opens a second one records its target A, the tile
\* it raised.  In phase second_build of a game not won, a click on a valid
\* build of the worker other than A raises the clicked tile by one level,
\* changes no other height and ends the turn; any other click, one on A
\* included, is refused with board and game state unchanged.  Skipping ends
\* the turn with no height changed.  So the two tiles built on differ.
C15_SecondBuildNotSame ==
  [][LET TurnEnded == /\ turn_count' = turn_count + 1
                      /\ current_player_index' = Other(current_player_index)
                      /\ phase' = "select"
     IN
     /\ (phase = "build" /\ phase' = "second_build")
          => /\ second_action'.first_pos = last'.pos
             /\ level' = [level EXCEPT ![last'.pos] = @ + 1]
     /\ (phase = "second_build" /\ last'.op = "click" /\ winner = NoPlayer)
          => IF last'.pos \in
                  GetValidBuilds(level, occ, position[selected_worker])
                    \ {second_action.first_pos}
             THEN /\ last'.ok
                  /\ level' = [level EXCEPT ![last'.pos] = @ + 1]
                  /\ UNCHANGED <<occ, position>>
                  /\ TurnEnded
             ELSE /\ ~last'.ok
                  /\ UNCHANGED <<boardVars, gameVars>>
     /\ (phase = "second_build" /\ last'.op = "skip")
          => /\ UNCHANGED <<level, occ, position>>
             /\ TurnEnded]_vars

\* C15 witness: in phase second_build of a game not won, a click on the
\* target of the first build, which is still a valid build, was refused.
C15_Witness ==
  /\ phase = "second_build" /\ winner = NoPlayer
  /\ last.op = "click" /\ ~last.ok
  /\ last.pos = second_action.first_pos
  /\ last.pos \in GetValidBuilds(level, occ, position[selected_worker])

\* C16: in phase build of a game not won, a click on the selected worker's
\* own tile is accepted exactly when the current player holds Zeus, the power
\* is active and the tile is below level 3; an accepted click raises that
\* tile by one level, changes no other height, leaves every worker where it
\* is and ends the turn; a refused one leaves board and game state unchanged.
C16_ZeusBuildsUnderSelf ==
  [][(/\ phase = "build" /\ last'.op = "click" /\ winner = NoPlayer
      /\ last'.pos = position[selected_worker])
       => IF /\ god_card[current_player_index] = "Zeus"
             /\ god_power_active
             /\ level[last'.pos] # DOME /\ level[last'.pos] < 3
          THEN /\ last'.ok
               /\ level' = [level EXCEPT ![last'.pos] = @ + 1]
               /\ UNCHANGED <<occ, position>>
               /\ occ'[last'.pos] = selected_worker
               /\ turn_count' = turn_count + 1
               /\ current_player_index' = Other(current_player_index)
               /\ phase' = "select"
          ELSE /\ ~last'.ok
               /\ UNCHANGED <<boardVars, gameVars>>]_vars

\* C16 witness: a turn ended by a build under a worker, which stands on the
\* tile that was raised.
C16_Witness ==
  /\ last.op = "click" /\ last.ok
  /\ phase = "select" /\ turn_count = turn0 + 1
  /\ occ[last.pos] # NoWorker
  /\ level[last.pos] = InitLevel[last.pos] + 1

\* C17: no hint count is below 0 or above the 3 a game starts with.  A hint
\* request returns a proposal exactly when the game is not won, the current
\* player's count is above 0 and find_best_move has a candidate; it then
\* takes exactly 1 from the current player's count and leaves the other
\* player's as it is; a request that returns nothing changes neither.
C17_HintCounts ==
  /\ [](\A p \in Players : hint_counts[p] \in 0..InitialHints)
  /\ [][last'.op = "hint" =>
          /\ last'.ok <=> /\ winner = NoPlayer
                          /\ hint_counts[current_player_index] > 0
                          /\ FindBestMove # NoPos
          /\ IF last'.ok
             THEN /\ hint_counts'[current_player_index]
                       = hint_counts[current_player_index] - 1
                  /\ hint_counts'[Other(current_player_index)]
                       = hint_counts[Other(current_player_index)]
             ELSE hint_counts' = hint_counts]_vars

\* C17 witness: in a game not won a player with a hint left asked for one,
\* there was nothing to propose, and the count is what it was.
C17_Witness ==
  /\ last.op = "hint" /\ ~last.ok
  /\ winner = NoPlayer
  /\ hint_counts[current_player_index] > 0

\* C18: a click on a tile outside the legal targets of the phase -- select:
\* the current player's workers that can move; move: the selected worker's
\* valid moves; second_move: those without the tile it came from; build: its
\* valid builds, with its own tile below level 3 when Zeus is active;
\* second_build: its valid builds without the first target -- and any click
\* in a game that is won leave heights, occupants, positions, phase, selected
\* worker, second action, god_power_active, current player, turn_count,
\* winner and hint counts unchanged.
C18_IllegalClickIsNoOp ==
  [][LET p == last'.pos
         w == selected_worker
         at == position[w]
         moves == GetValidMoves(level, occ, at, athena_activated)
         builds == GetValidBuilds(level, occ, at)
         legal ==
           /\ winner = NoPlayer
           /\ CASE phase = "select" ->
                     /\ occ[p] # NoWorker
                     /\ Owner(occ[p]) = current_player_index
                     /\ GetValidMoves(level, occ, p, athena_activated) # {}
                [] phase = "move" -> p \in moves
                [] phase = "second_move" -> p \in moves \ {prev_position[w]}
                [] phase = "build" ->
                     \/ p \in builds
                     \/ /\ p = at /\ level[at] < 3
                        /\ god_power_active
                        /\ god_card[current_player_index] = "Zeus"
                [] phase = "second_build" ->
                     p \in builds \ {second_action.first_pos}
                [] OTHER -> FALSE
     IN (last'.op = "click" /\ ~legal)
          => UNCHANGED <<boardVars, gameVars, hint_counts>>]_vars

\* C18 witness: in phase move of a game not won, a click on a tile the
\* selected worker cannot move to was refused.
C18_Witness ==
  /\ phase = "move" /\ winner = NoPlayer
  /\ last.op = "click" /\ ~last.ok
  /\ last.pos \notin GetValidMoves(level, occ, position[selected_worker],
                                   athena_activated)

\* C19 as stated: exactly one of the two players has no card.
C19_OneWithoutCard ==
  Cardinality({p \in Players : god_card[p] = "None"}) = 1

\* C19 as the code has it: in every session one player holds Zeus and the
\* other Artemis or Demeter, so no player is without a card, and the cards
\* stay as dealt for the whole session.
C19_ZeusAndAnother ==
  /\ [](\E p \in Players : /\ god_card[p] = "Zeus"
                            /\ god_card[Other(p)] \in {"Artemis", "Demeter"})
  /\ [][god_card' = god_card]_vars

\* C19 witness: a session in which the second player was dealt Zeus and the
\* first one Demeter, whose power has opened a second build.
C19_Witness ==
  /\ god_card[0] = "Demeter" /\ god_card[1] = "Zeus"
  /\ phase = "second_build" /\ current_player_index = 0

\* C20: in phase select no worker is selected.  In a game not won, a click
\* in phase select on a tile that holds a worker of the current player with
\* at least one valid move selects that worker and moves phase to move; a
\* click on an empty tile, on a worker of the opponent or on an own worker
\* without a valid move leaves phase select and no worker selected.  The
\* board is unchanged in both cases.
C20_SelectPhase ==
  /\ [](phase = "select" => selected_worker = NoWorker)
  /\ [][(phase = "select" /\ last'.op = "click" /\ winner = NoPlayer)
          => LET p == last'.pos
                 w == occ[p]
             IN /\ UNCHANGED boardVars
                /\ IF /\ w \in WorkersOf(current_player_index)
                      /\ \E q \in GetAdjacentPositions(p) :
                           /\ occ[q] = NoWorker
                           /\ level[q] # DOME
                           /\ level[q] <= level[p] + 1
                   THEN /\ last'.ok
                        /\ selected_worker' = w
                        /\ phase' = "move"
                   ELSE /\ ~last'.ok
                        /\ selected_worker' = NoWorker
                        /\ phase' = "select"]_vars

\* C20 witness: in a game not won, a click in phase select on an own worker
\* that has no valid move was refused.
C20_Witness ==
  /\ phase = "select" /\ winner = NoPlayer
  /\ last.op = "click" /\ ~last.ok
  /\ occ[last.pos] \in WorkersOf(current_player_index)
  /\ selected_worker = NoWorker

\* C21: a click of phase move that moves the worker without winning leaves
\* phase second_move exactly when the current player holds Artemis, the
\* power is active and the worker has, from its new tile, a valid move to a
\* tile other than the one it just left; otherwise it leaves phase build.
C21_SecondMoveOffered ==
  [][(phase = "move" /\ last'.op = "click" /\ last'.ok
        /\ winner' = NoPlayer)
       => LET w == selected_worker
              from == position[w]
              to == last'.pos
              onward == {q \in GetAdjacentPositions(to) :
                           /\ q # from
                           /\ occ'[q] = NoWorker
                           /\ level'[q] # DOME
                           /\ level'[q] <= level'[to] + 1}
          IN /\ position'[w] = to
             /\ phase' = IF /\ god_card[current_player_index] = "Artemis"
                            /\ god_power_active
                            /\ onward # {}
                         THEN "second_move" ELSE "build"]_vars

\* C21 witness: a worker of an Artemis player with the power active has
\* moved without winning, could only have gone back from its new tile, and
\* the phase is build.
C21_Witness ==
  /\ phase = "build" /\ winner = NoPlayer
  /\ last.op = "click" /\ last.ok
  /\ position[selected_worker] = last.pos
  /\ second_action = NoAction
  /\ god_card[current_player_index] = "Artemis" /\ god_power_active

\* C22: in phase second_move of a game not won, a click on a valid move of
\* the selected worker other than the tile it came from puts the worker
\* there and changes no height; if that tile has level 3 the worker's owner
\* becomes winner, otherwise phase becomes build.  A skip makes phase build
\* and leaves heights, occupants and positions as they are.  Neither changes
\* turn_count or the current player.
C22_SecondMoveOrSkip ==
  [][phase = "second_move" =>
       LET w == selected_worker
           from == position[w]
           to == last'.pos
       IN /\ (/\ last'.op = "click" /\ winner = NoPlayer
               /\ to \in GetValidMoves(level, occ, from, athena_activated)
                            \ {prev_position[w]})
               => /\ last'.ok
                  /\ position' = [position EXCEPT ![w] = to]
                  /\ occ' = [occ EXCEPT ![from] = NoWorker, ![to] = w]
                  /\ level' = level
                  /\ IF level[to] = LEVEL3
                     THEN winner' = Owner(w)
                     ELSE winner' = NoPlayer /\ phase' = "build"
                  /\ UNCHANGED <<turn_count, current_player_index>>
          /\ last'.op = "skip"
               => /\ phase' = "build"
                  /\ UNCHANGED <<level, occ, position, turn_count,
                                 current_player_index>>]_vars

\* C22 witness: a second move onto a tile of level 3 has set the winner.
C22_Witness ==
  /\ phase = "second_move" /\ winner = current_player_index
  /\ last.op = "click" /\ last.ok
  /\ position[selected_worker] = last.pos
  /\ level[last.pos] = LEVEL3

\* C23: an accepted click of phase build on a tile other than the worker's
\* own leaves phase second_build, in the same turn, exactly when the current
\* player holds Demeter, the power is active and the worker has another free
\* neighbouring tile that is no DOME; otherwise it ends the turn.
C23_SecondBuildOffered ==
  [][(phase = "build" /\ last'.op = "click" /\ last'.ok
        /\ last'.pos # position[selected_worker])
       => LET at == position[selected_worker]
              others == {q \in GetAdjacentPositions(at) :
                           /\ q # last'.pos
                           /\ occ[q] = NoWorker
                           /\ level[q] # DOME}
          IN IF /\ god_card[current_player_index] = "Demeter"
                /\ god_power_active
                /\ others # {}
             THEN /\ phase' = "second_build"
                  /\ UNCHANGED <<turn_count, current_player_index>>
             ELSE /\ phase' = "select"
                  /\ turn_count' = turn_count + 1
                  /\ current_player_index' = Other(current_player_index)]_vars

\* C23 witness: a Demeter player with the power active has built next to
\* its worker, which has another tile to build on, and the phase is
\* second_build with that first target recorded.
C23_Witness ==
  /\ phase = "second_build" /\ winner = NoPlayer
  /\ last.op = "click" /\ last.ok
  /\ god_card[current_player_index] = "Demeter" /\ god_power_active
  /\ second_action = [type |-> "build", first_pos |-> last.pos]
  /\ level[last.pos] = LateLevel[last.pos] + 1

\* C24: a step that ends a turn takes time from no player but the departing
\* one, makes the other player current, adds exactly 1 to turn_count, leaves
\* no worker selected, no second action, god_power_active false and phase
\* select; it moves no worker, changes no hint count and no height other
\* than that of the tile the ending click built on (none for a skip).  If it
\* finds the new player unable to move, the clock is left halted.
C24_NextTurn ==
  [][turn_count' # turn_count =>
       /\ turn_count' = turn_count + 1
       /\ current_player_index' = (current_player_index + 1) % 2
       /\ selected_worker' = NoWorker
       /\ second_action' = NoAction
       /\ god_power_active' = FALSE
       /\ phase' = "select"
       /\ UNCHANGED <<occ, position, prev_position, hint_counts>>
       /\ \A q \in Pos :
            level'[q] # level[q] => last'.op = "click" /\ q = last'.pos
       /\ player_timers'[current_player_index']
            = player_timers[current_player_index']
       /\ player_timers'[current_player_index]
            <= player_timers[current_player_index]
       /\ (winner = NoPlayer /\ winner' # NoPlayer) => ~running']_vars

\* C24 witness: a skip of the second build has ended the turn; the other
\* player is to select and the heights are those of the first build.
C24_Witness ==
  /\ last.op = "skip" /\ last.ok
  /\ turn_count = turn0 + 1
  /\ current_player_index = (turn0 + 1) % 2
  /\ phase = "select" /\ selected_worker = NoWorker
  /\ second_action = NoAction /\ ~god_power_active
  /\ winner = NoPlayer /\ running

\* C25: on every board the game reaches, for every position on the board or
\* just off it and both values of the restriction, get_valid_moves is empty
\* for a position off the board and otherwise holds exactly the tiles of the
\* board at most one row and one column away, other than the position
\* itself, that are free, no DOME and at most one level higher -- and not
\* exactly one level higher when the restriction is on.
C25_ValidMoves ==
  \A p \in QueryPos, restricted \in BOOLEAN :
    LET near(q) == /\ q[1] - p[1] \in -1..1
                   /\ q[2] - p[2] \in -1..1
        moves == GetValidMoves(level, occ, p, restricted)
    IN /\ p \notin moves
       /\ moves = IF p \notin Pos THEN {}
                  ELSE {q \in Pos :
                          /\ q # p /\ near(q)
                          /\ occ[q] = NoWorker
                          /\ level[q] # DOME
                          /\ level[q] - level[p] <= 1
                          /\ restricted => level[q] - level[p] # 1}

\* C25 witness: a board on which some tile has a free neighbour too high to
\* step on, one exactly one level up, an occupied one and a DOME.
C25_Witness ==
  \E p \in Pos :
    /\ \E q \in GetAdjacentPositions(p) :
         occ[q] = NoWorker /\ level[q] # DOME /\ level[q] - level[p] > 1
    /\ \E q \in GetAdjacentPositions(p) :
         occ[q] = NoWorker /\ level[q] - level[p] = 1
    /\ \E q \in GetAdjacentPositions(p) : occ[q] # NoWorker
    /\ \E q \in GetAdjacentPositions(p) : level[q] = DOME
    /\ GetValidMoves(level, occ, p, FALSE)
         # GetValidMoves(level, occ, p, TRUE)

\* C26: on every board the game reaches, for every position on the board or
\* just off it, get_valid_builds holds exactly the tiles of the board at most
\* one row and one column away, other than the position itself, that are
\* free and no DOME (none for a position off the board), and
\* get_valid_builds_with_zeus holds the same tiles and in addition the
\* position itself exactly when its tile is occupied, no DOME and below
\* level 3.
C26_ValidBuilds ==
  \A p \in QueryPos :
    LET near(q) == /\ q[1] - p[1] \in -1..1
                   /\ q[2] - p[2] \in -1..1
        around == IF p \notin Pos THEN {}
                  ELSE {q \in Pos : /\ q # p /\ near(q)
                                    /\ occ[q] = NoWorker
                                    /\ level[q] # DOME}
        own == /\ p \in Pos
               /\ occ[p] # NoWorker /\ level[p] # DOME /\ level[p] < 3
    IN /\ GetValidBuilds(level, occ, p) = around
       /\ GetValidBuildsWithZeus(level, occ, p) \ {p} = around
       /\ p \in GetValidBuildsWithZeus(level, occ, p) <=> own

\* C26 witness: a board with a worker on a tile of level 3, whose own tile
\* get_valid_builds_with_zeus leaves out, and a worker on a lower tile, whose
\* own tile it adds, next to a DOME and to an occupied tile.
C26_Witness ==
  \E v, w \in Workers :
    /\ level[position[v]] = LEVEL3
    /\ GetValidBuildsWithZeus(level, occ, position[v])
         = GetValidBuilds(level, occ, position[v])
    /\ level[position[w]] < LEVEL3
    /\ position[w] \in GetValidBuildsWithZeus(level, occ, position[w])
    /\ \E q \in GetAdjacentPositions(position[w]) : level[q] = DOME
    /\ \E q \in GetAdjacentPositions(position[w]) : occ[q] # NoWorker

\* C27: place_worker(w, new) fails and leaves heights, occupants, positions
\* and previous positions as they are when new is off the board, occupied
\* (by w itself or another worker) or a DOME; otherwise it succeeds, frees
\* the tile w stood on, makes w the occupant of new, sets w's previous
\* position to where it stood and its position to new, and changes no height
\* and no other worker.
C27_PlaceWorker ==
  [][last'.op = "place_worker" =>
       LET new == last'.pos
           w == CHOOSE v \in Workers : position[v] = last'.from
       IN IF \/ new \notin Pos
             \/ occ[new] # NoWorker
             \/ level[new] = DOME
          THEN ~last'.ok /\ UNCHANGED boardVars
          ELSE /\ last'.ok
               /\ occ' = [occ EXCEPT ![position[w]] = NoWorker, ![new] = w]
               /\ position' = [position EXCEPT ![w] = new]
               /\ prev_position' = [prev_position EXCEPT ![w] = position[w]]
               /\ level' = level]_vars

\* C27 witness: place_worker has put a worker on a tile more than one level
\* above the one it stood on, which Move.execute would not have allowed.
C27_Witness ==
  /\ last.op = "place_worker" /\ last.ok
  /\ occ[last.pos] # NoWorker
  /\ position[occ[last.pos]] = last.pos
  /\ prev_position[occ[last.pos]] = last.from
  /\ occ[last.from] = NoWorker
  /\ level[last.pos] - level[last.from] > 1

\* C28: in phase move with a worker selected, find_best_move proposes a legal
\* destination of that worker whose score 5 * max(0, target height - source
\* height) + (100 if the target height is 3) is the highest among the legal
\* destinations, and the first such destination in scan order; when a
\* destination of height 3 is legal the proposal has height 3; it proposes
\* nothing when the worker has no legal destination.  A hint given in phase
\* move is that proposal.
C28_BestMoveHint ==
  /\ []((phase = "move" /\ selected_worker # NoWorker) =>
          LET from == position[selected_worker]
              vm == GetValidMoves(level, occ, from, athena_activated)
              climb == [q \in vm |-> IF level[q] > level[from]
                                     THEN level[q] - level[from] ELSE 0]
              points == [q \in vm |->
                           5 * climb[q] + (IF level[q] = 3 THEN 100 ELSE 0)]
              top == {q \in vm : \A r \in vm : points[r] <= points[q]}
              h == FindBestMove
          IN IF vm = {} THEN h = NoPos
             ELSE /\ h \in top
                  /\ \A q \in top : q = h \/ ScanBefore(h, q)
                  /\ (\E q \in vm : level[q] = 3) => level[h] = 3)
  /\ [][(last'.op = "hint" /\ last'.ok /\ phase = "move") =>
          LET from == position[selected_worker]
              vm == GetValidMoves(level, occ, from, athena_activated)
              climb == [q \in vm |-> IF level[q] > level[from]
                                     THEN level[q] - level[from] ELSE 0]
              points == [q \in vm |->
                           5 * climb[q] + (IF level[q] = 3 THEN 100 ELSE 0)]
              top == {q \in vm : \A r \in vm : points[r] <= points[q]}
              h == last'.pos
          IN /\ h \in top
             /\ \A q \in top : q = h \/ ScanBefore(h, q)
             /\ (\E q \in vm : level[q] = 3) => level[h] = 3]_vars

\* C28 witness: a hint was given in phase move; it points to a tile of height
\* 3 although a legal destination that is lower comes before it in scan
\* order.
C28_Witness ==
  /\ last.op = "hint" /\ last.ok
  /\ phase = "move" /\ selected_worker # NoWorker
  /\ level[last.pos] = 3
  /\ \E q \in GetValidMoves(level, occ, position[selected_worker],
                             athena_activated) :
        ScanBefore(q, last.pos) /\ level[q] < 3

\* C29: start() called while the clock is disabled or running changes
\* nothing of the clock: no thread is begun, no start time is taken.  stop()
\* called while the clock is halted -- as it is after a stop() until the next
\* start() -- takes no time from any player and leaves the clock halted, and
\* so does the stop() at the head of next_turn and in show_game_over.
C29_StartStop ==
  /\ [][(last'.op = "start" /\ (~enabled \/ running))
          => (~last'.ok /\ UNCHANGED timerVars)]_vars
  /\ [][(last'.op = "stop" /\ ~running)
          => (UNCHANGED <<player_timers, current_timer_start, thread, stale>>
              /\ ~running')]_vars
  /\ [][(~running /\ (turn_count' # turn_count \/ last'.op = "timeout"))
          => player_timers' = player_timers]_vars
  /\ [][last'.op = "stop" => ~running']_vars

\* C29 witness: start() was called while the clock was running, with the
\* timer thread asleep, and did nothing.
C29_Witness ==
  /\ last.op = "start" /\ ~last.ok
  /\ running /\ current_timer_start
  /\ thread = "sleep" /\ stale = 0

\* C30: no player's remaining time is ever below zero.
C30_TimeNeverNegative == \A p \in Players : player_timers[p] >= 0

\* C31: once winner is set, no step -- click, skip, activation, hint, end of
\* turn with its stalemate check, timeout handling, timer thread -- changes
\* it.
C31_WinnerIsFinal == [][winner # NoPlayer => winner' = winner]_vars

\* C31 witness: a timeout of the player who has won was handled after the
\* win and left the winner in place.
C31_Witness ==
  /\ last.op = "timeout" /\ ~last.ok
  /\ winner = current_player_index

\* C32: a worker stands on a tile of height 3 only if winner is set or its
\* owner holds the Zeus card.
C32_LevelThreeIsWonOrZeus ==
  \A w \in Workers :
     (position[w] # NoPos /\ level[position[w]] = LEVEL3)
        => (winner # NoPlayer \/ god_card[Owner(w)] = "Zeus")

\* C32 witness: in a game not won a worker of the Zeus player stands on
\* height 3, on the tile it has just built on.
C32_Witness ==
  /\ winner = NoPlayer
  /\ last.op = "click" /\ last.ok
  /\ level[last.pos] = LEVEL3
  /\ occ[last.pos] # NoWorker
  /\ god_card[Owner(occ[last.pos])] = "Zeus"

\* C33: in a game not won with phase select, a worker of the current player
\* has a legal move.
C33_SelectCanMove ==
  (winner = NoPlayer /\ phase = "select")
     => \E w \in WorkersOf(current_player_index) :
           /\ position[w] # NoPos
           /\ GetValidMoves(level, occ, position[w], athena_activated) # {}

\* C33 witness: the first state of a game, where the worker of player 0 in
\* the corner is shut in by the three other workers and the second worker of
\* player 0 can move.
C33_Witness ==
  /\ turn_count = 0 /\ phase = "select" /\ winner = NoPlayer
  /\ last.op = "start_game"
  /\ \E w \in WorkersOf(0) :
        /\ position[w] = <<0, 0>>
        /\ GetValidMoves(level, occ, position[w], athena_activated) = {}

\* C34: in a game not won with phase move, second_move, build or
\* second_build, the selected worker is a placed worker of the current player
\* and the phase has a legal target: a valid move; a valid move other than
\* the tile the worker came from; a valid build, the tile the worker has
\* just left being one; a valid build other than the first target.
C34_NeverStuck ==
  (winner = NoPlayer
     /\ phase \in {"move", "second_move", "build", "second_build"})
  => /\ selected_worker \in WorkersOf(current_player_index)
     /\ position[selected_worker] \in Pos
     /\ LET w == selected_worker
            moves == GetValidMoves(level, occ, position[w], athena_activated)
            builds == GetValidBuilds(level, occ, position[w])
        IN CASE phase = "move" -> moves # {}
             [] phase = "second_move" -> moves \ {prev_position[w]} # {}
             [] phase = "build" -> prev_position[w] \in builds
             [] phase = "second_build" ->
                  builds \ {second_action.first_pos} # {}

\* C34 witness: the selected worker has moved to a tile from which the only
\* tile it can build on is the one it has left; phase is build.
C34_Witness ==
  /\ winner = NoPlayer /\ phase = "build"
  /\ last.op = "click" /\ last.ok
  /\ selected_worker # NoWorker
  /\ position[selected_worker] = last.pos
  /\ GetValidBuilds(level, occ, position[selected_worker])
       = {prev_position[selected_worker]}

\* C35: with phase second_move the current player holds Artemis, the power
\* is active and second_action has type move; with phase second_build the
\* current player holds Demeter, the power is active and second_action has
\* type build.  The step that enters second_build is a build on the tile it
\* records as first_pos, and the record stays while the phase lasts.
C35_BonusPhaseHasCard ==
  /\ [](phase = "second_move"
          => /\ god_card[current_player_index] = "Artemis"
             /\ god_power_active
             /\ second_action.type = "move")
  /\ [](phase = "second_build"
          => /\ god_card[current_player_index] = "Demeter"
             /\ god_power_active
             /\ second_action.type = "build")
  /\ [][(phase # "second_build" /\ phase' = "second_build")
          => /\ phase = "build"
             /\ turn_count' = turn_count
             /\ second_action'.first_pos = last'.pos
             /\ level'[last'.pos] = level[last'.pos] + 1
             /\ \A q \in Pos \ {last'.pos} : level'[q] = level[q]]_vars
  /\ [][(phase = "second_build" /\ phase' = "second_build")
          => second_action' = second_action]_vars

\* C35 witness: phase second_build of a Demeter player, entered by a build
\* on the tile second_action records.
C35_Witness ==
  /\ phase = "second_build"
  /\ god_card[current_player_index] = "Demeter" /\ god_power_active
  /\ last.op = "click" /\ last.ok
  /\ second_action = [type |-> "build", first_pos |-> last.pos]
  /\ level[last.pos] > 0

\* C36: the steps of a turn come in the order selection, one or two moves,
\* one or two builds.  A worker is selected only in phase select, it is a
\* worker of the current player, and the selection stays until the turn
\* ends.  A worker changes tile only by a click in phase move or second_move
\* and a tile grows only by a click in phase build or second_build; the
\* worker that moves or builds is the selected one.  Within a turn phase
\* goes from select to move, from move to second_move or build, from
\* second_move to build, from build to second_build; the turn ends from
\* build or second_build only.
C36_TurnOrder ==
  /\ [][selected_worker' # selected_worker =>
          IF turn_count' # turn_count THEN selected_worker' = NoWorker
          ELSE /\ phase = "select" /\ phase' = "move"
               /\ selected_worker = NoWorker
               /\ selected_worker' \in WorkersOf(current_player_index)
               /\ last'.op = "click"]_vars
  /\ [][position' # position =>
          /\ last'.op = "click" /\ phase \in {"move", "second_move"}
          /\ selected_worker \in WorkersOf(current_player_index)
          /\ \A w \in Workers \ {selected_worker} :
                position'[w] = position[w]
          /\ level' = level]_vars
  /\ [][level' # level =>
          /\ last'.op = "click" /\ phase \in {"build", "second_build"}
          /\ selected_worker \in WorkersOf(current_player_index)
          /\ \/ last'.pos \in GetAdjacentPositions(position[selected_worker])
             \/ last'.pos = position[selected_worker]
          /\ \A q \in Pos \ {last'.pos} : level'[q] = level[q]
          /\ position' = position]_vars
  /\ [][(phase' # phase /\ turn_count' = turn_count) =>
          <<phase, phase'>> \in {<<"select", "move">>,
                                <<"move", "second_move">>,
                                <<"move", "build">>,
                                <<"second_move", "build">>,
                                <<"build", "second_build">>}]_vars
  /\ [][turn_count' # turn_count =>
          (phase \in {"build", "second_build"} /\ phase' = "select")]_vars

\* C36 witness: the selected worker has made its second move and phase is
\* build.
C36_Witness ==
  /\ phase = "build" /\ winner = NoPlayer
  /\ last.op = "click" /\ last.ok
  /\ selected_worker \in WorkersOf(current_player_index)
  /\ position[selected_worker] = last.pos
  /\ second_action.type = "move"
  /\ second_action.first_pos = prev_position[selected_worker]

\* C37: a hint request changes nothing but the hint counts, and a hint is
\* given only in a game not won and names a legal input of the phase: in
\* select the tile of a worker of the current player that has a valid move,
\* in move a valid move of the selected worker, in build a valid build of
\* the selected worker.  In every state of a game not won the proposal of
\* find_best_move, if there is one, is such an input.
C37_HintIsLegal ==
  /\ [](LET h == FindBestMove
            w == selected_worker
        IN (winner = NoPlayer /\ h # NoPos) =>
             CASE phase = "select" ->
                    /\ h \in Pos /\ occ[h] \in WorkersOf(current_player_index)
                    /\ GetValidMoves(level, occ, h, athena_activated) # {}
               [] phase = "move" ->
                    h \in GetValidMoves(level, occ, position[w],
                                        athena_activated)
               [] phase = "build" ->
                    h \in GetValidBuilds(level, occ, position[w])
               [] OTHER -> FALSE)
  /\ [][last'.op = "hint" =>
          /\ UNCHANGED <<boardVars, gameVars, timerVars, god_card, pending>>
          /\ last'.ok =>
                /\ winner = NoPlayer
                /\ LET h == last'.pos
                       w == selected_worker
                   IN CASE phase = "select" ->
                             /\ h \in Pos
                             /\ occ[h] \in WorkersOf(current_player_index)
                             /\ GetValidMoves(level, occ, h,
                                              athena_activated) # {}
                        [] phase = "move" ->
                             h \in GetValidMoves(level, occ, position[w],
                                                 athena_activated)
                        [] phase = "build" ->
                             h \in GetValidBuilds(level, occ, position[w])
                        [] OTHER -> FALSE]_vars

\* C37 witness: a hint was given in phase build; it names a tile the
\* selected worker can build on, next to a tile it cannot build on.
C37_Witness ==
  /\ last.op = "hint" /\ last.ok
  /\ phase = "build" /\ winner = NoPlayer
  /\ last.pos \in GetValidBuilds(level, occ, position[selected_worker])
  /\ \E q \in GetAdjacentPositions(position[selected_worker]) :
        q \notin GetValidBuilds(level, occ, position[selected_worker])

====
